---- MODULE Spec2Model ----
(***************************************************************************)
(* Text-to-speech tokenizer utilities (tokenizer_utils.py) and the Indic   *)
(* syllable extractor script (indic_syllable_extractor.py).                *)
(*                                                                         *)
(* A text is a sequence of code points.  A code point is written as a      *)
(* string: an ASCII character stands for itself, a non-ASCII one is named: *)
(*   "na"     U+0928 DEVANAGARI LETTER NA                                  *)
(*   "nnna"   U+0929 DEVANAGARI LETTER NNNA  (NFC of U+0928 U+093C)        *)
(*   "aa"     U+093E DEVANAGARI VOWEL SIGN AA                              *)
(*   "nukta"  U+093C DEVANAGARI SIGN NUKTA                                 *)
(*   "deva1"  U+0967 DEVANAGARI DIGIT ONE    (str.isdigit() is True)       *)
(*   "danda"  U+0964 DEVANAGARI DANDA        (category Po, not ASCII)      *)
(*   "nbsp"   U+00A0 NO-BREAK SPACE          (category Zs, not ASCII)      *)
(*   "rsquo"  U+2019 RIGHT SINGLE QUOTATION MARK                           *)
(*   "eacute" U+00E9, "Eacute" U+00C9        (accented Latin letters)      *)
(*   "TAB" U+0009, "LF" U+000A, "VT" U+000B, "FF" U+000C, "CR" U+000D      *)
(*   "dquote" U+0022, "bslash" U+005C, "grave" U+0060                      *)
(***************************************************************************)
EXTENDS Integers, Sequences, FiniteSets, TLC

VARIABLES op, pc, text, lang_symbols, imported, failAt, failKind, sylMode, words, result, raised

vars == <<op, pc, text, lang_symbols, imported, failAt, failKind, sylMode, words, result, raised>>

(* ------------------------------ bounds -------------------------------- *)

\* longest input text of the heuristic clusterer
MaxLen ==
  4

\* longest input text of the linguistic clusterer
MaxLenImproved ==
  5

\* longest input text of the word tokenizers (Scenario A's text is added to these)
MaxLenTok ==
  5

(* --------------------------- sequence helpers -------------------------- *)

RECURSIVE Flatten(_)
\* ''.join(parts)
Flatten(parts) ==
  IF parts = <<>> THEN <<>> ELSE Head(parts) \o Flatten(Tail(parts))

RECURSIVE SeqsUpTo(_, _)
\* every sequence over S of length at most n
SeqsUpTo(S, n) ==
  IF n = 0 THEN {<<>>}
  ELSE LET shorter == SeqsUpTo(S, n - 1)
       IN  shorter \cup {Append(s, c) : s \in {t \in shorter : Len(t) = n - 1}, c \in S}

(* --------------------------- character classes ------------------------- *)

\* str.isdigit(): the ASCII digits and every other Unicode digit
IsDigit(char) ==
  char \in {"0", "1", "2", "3", "4", "5", "6", "7", "8", "9", "deva1"}

\* string.punctuation: the 32 ASCII punctuation characters
string_punctuation ==
  {"!", "dquote", "#", "$", "%", "&", "'", "(", ")", "*", "+", ",", "-", ".", "/", ":",
   ";", "<", "=", ">", "?", "@", "[", "bslash", "]", "^", "_", "grave", "{", "|", "}", "~"}

\* string.whitespace: space, tab, line feed, carriage return, U+000B, form feed
string_whitespace ==
  {" ", "TAB", "LF", "CR", "VT", "FF"}

\* str.split() with no separator splits on every Unicode whitespace character
IsSpace(char) ==
  char \in string_whitespace \cup {"nbsp"}

(* ---------------------------- preprocessing ---------------------------- *)

\* unicodedata.is_normalized("NFC", text): no NA is directly followed by a NUKTA
is_normalized(t) ==
  \A k \in 1..(Len(t) - 1) : ~(t[k] = "na" /\ t[k + 1] = "nukta")

RECURSIVE NFC(_)
\* unicodedata.normalize("NFC", text): U+0928 U+093C composes to U+0929
NFC(t) ==
  IF Len(t) < 2 THEN t
  ELSE IF t[1] = "na" /\ t[2] = "nukta"
       THEN <<"nnna">> \o NFC(SubSeq(t, 3, Len(t)))
       ELSE <<t[1]>> \o NFC(Tail(t))

normalize_unicode_text(t) ==
  IF ~is_normalized(t) THEN NFC(t) ELSE t

any_locale_text_preprocessing(t) ==
  LET n == normalize_unicode_text(t)
  IN  [k \in 1..Len(n) |-> IF n[k] = "rsquo" THEN "'" ELSE n[k]]

(* ------------------------- heuristic clusterer ------------------------- *)

\* the test of the loop's `continue`
IsSkipped(char) ==
  IsDigit(char) \/ char \in string_punctuation \/ char \in string_whitespace

\* LoopBody with the open cluster overwritten instead of closed
LoopBody_DropOpen(i, char, symbols, st) ==
  IF i = 0 \/ char \in symbols
  THEN [st EXCEPT !.current_cluster = @ \o <<char>>]
  ELSE [st EXCEPT !.current_cluster = <<char>>]

\* LoopBody without the `if i == 0` case
LoopBody_NoFirst(i, char, symbols, st) ==
  IF char \in symbols
  THEN [st EXCEPT !.current_cluster = @ \o <<char>>]
  ELSE [clusters |-> Append(st.clusters, st.current_cluster),
        current_cluster |-> <<char>>]

\* one pass of the loop body for a character that is not skipped;
\* i is the 0-based index of char in the text, st = [clusters, current_cluster]
LoopBody(i, char, symbols, st) ==
  IF i = 0
  THEN [st EXCEPT !.current_cluster = @ \o <<char>>]
  ELSE IF char \in symbols
       THEN [st EXCEPT !.current_cluster = @ \o <<char>>]
       ELSE [clusters |-> Append(st.clusters, st.current_cluster),
             current_cluster |-> <<char>>]

RECURSIVE ClusterLoop(_, _, _, _)
\* the for loop from index i on, then the final clusters.append(current_cluster)
ClusterLoop(t, symbols, i, st) ==
  IF i >= Len(t) THEN Append(st.clusters, st.current_cluster)
  ELSE IF IsSkipped(t[i + 1])
       THEN ClusterLoop(t, symbols, i + 1, st)
       ELSE ClusterLoop(t, symbols, i + 1, LoopBody(i, t[i + 1], symbols, st))

generate_grapheme_clusters(t, symbols) ==
  ClusterLoop(t, symbols, 0, [clusters |-> <<>>, current_cluster |-> <<>>])

indic_syllable_text_processing(t, symbols) ==
  generate_grapheme_clusters(any_locale_text_preprocessing(t), symbols)

\* the input code points of the heuristic clusterer's calls
ClusterChars ==
  {"na", "aa", "nukta", "1", "deva1", "-", " ", "danda", "nbsp", "rsquo"}

\* the combining-symbol sets of the calls
ClusterSymbolSets ==
  {{}, {"aa", "nukta"}, {"aa", "nukta", "na", "-"}}

InitCluster ==
  /\ op \in {"indic_syllable_text_processing", "generate_grapheme_clusters"}
  /\ pc = "call"
  /\ text \in SeqsUpTo(ClusterChars, MaxLen)
  /\ lang_symbols \in ClusterSymbolSets
  /\ imported = FALSE
  /\ failAt = 0
  /\ failKind = "none"
  /\ sylMode = "none"
  /\ words = <<>>
  /\ result = <<>>
  /\ raised = "none"

Call_indic_syllable_text_processing ==
  /\ pc = "call"
  /\ op = "indic_syllable_text_processing"
  /\ result' = indic_syllable_text_processing(text, lang_symbols)
  /\ raised' = "none"
  /\ pc' = "done"
  /\ UNCHANGED <<op, text, lang_symbols, imported, failAt, failKind, sylMode, words>>

Call_generate_grapheme_clusters ==
  /\ pc = "call"
  /\ op = "generate_grapheme_clusters"
  /\ result' = generate_grapheme_clusters(text, lang_symbols)
  /\ raised' = "none"
  /\ pc' = "done"
  /\ UNCHANGED <<op, text, lang_symbols, imported, failAt, failKind, sylMode, words>>

NextCluster ==
  \/ Call_indic_syllable_text_processing
  \/ Call_generate_grapheme_clusters

SpecCluster ==
  InitCluster /\ [][NextCluster]_vars

(* ------------------------- linguistic clusterer ------------------------ *)

RECURSIVE split(_)
\* str.split() with no separator: the maximal runs of characters that are not
\* whitespace, in order; no empty word
split(t) ==
  IF t = <<>> THEN <<>>
  ELSE IF IsSpace(t[1]) THEN split(Tail(t))
  ELSE LET stops == {k \in 1..Len(t) : IsSpace(t[k])}
           n == IF stops = {} THEN Len(t)
                ELSE (CHOOSE k \in stops : \A m \in stops : k <= m) - 1
       IN  <<SubSeq(t, 1, n)>> \o split(SubSeq(t, n + 1, Len(t)))

\* the answer of the indicnlp library for one word, which this code does not
\* decide: one syllable per code point, or the word as one syllable
orthographic_syllabify_improved(word, mode) ==
  IF mode = "chars" THEN [k \in 1..Len(word) |-> <<word[k]>>] ELSE <<word>>

\* Separator with a space after every word
Separator_Always(i, n) ==
  <<<<" ">>>>

\* [" "] if i != len(words) - 1 else []
Separator(i, n) ==
  IF i # n - 1 THEN <<<<" ">>>> ELSE <<>>

RECURSIVE SyllableLoop(_, _, _, _, _, _, _)
\* the try block from word index i (0-based) on, the except clause and the return.
\* isImported: `from indicnlp.syllable import syllabifier` succeeded;
\* at, kind: the library raises an exception of that kind on word number at (1-based).
SyllableLoop(ws, i, syllables, isImported, at, kind, mode) ==
  IF i >= Len(ws)
  THEN [returned |-> syllables, raised |-> "none"]
  ELSE IF ~isImported
       \* NameError with name "syllabifier": re-raised as ImportError
       THEN [returned |-> <<>>, raised |-> "ImportError"]
  ELSE IF at = i + 1 /\ kind = "NameError"
       \* a NameError of another name is caught and not re-raised
       THEN [returned |-> syllables, raised |-> "none"]
  ELSE IF at = i + 1
       \* any other exception leaves the function
       THEN [returned |-> <<>>, raised |-> kind]
  ELSE SyllableLoop(ws, i + 1,
                    syllables \o orthographic_syllabify_improved(ws[i + 1], mode)
                              \o Separator(i, Len(ws)),
                    isImported, at, kind, mode)

\* the body after `words = text.split()`
indic_syllable_text_processing_improved(ws, isImported, at, kind, mode) ==
  SyllableLoop(ws, 0, <<>>, isImported, at, kind, mode)

\* the input code points of the linguistic clusterer's calls
ImprovedChars ==
  {"na", "nukta", " ", "nbsp"}

InitImproved ==
  /\ op = "indic_syllable_text_processing_improved"
  /\ pc = "call"
  /\ text \in SeqsUpTo(ImprovedChars, MaxLenImproved)
  /\ lang_symbols = {}
  /\ imported \in BOOLEAN
  /\ failAt \in 0..((MaxLenImproved + 1) \div 2)
  /\ failKind \in (IF failAt = 0 THEN {"none"} ELSE {"NameError", "ValueError"})
  /\ sylMode \in {"chars", "whole"}
  /\ words = <<>>
  /\ result = <<>>
  /\ raised = "none"

Call_indic_syllable_text_processing_improved ==
  /\ pc = "call"
  /\ op = "indic_syllable_text_processing_improved"
  /\ words' = split(any_locale_text_preprocessing(text))
  /\ LET r == indic_syllable_text_processing_improved(words', imported, failAt, failKind, sylMode)
     IN  result' = r.returned /\ raised' = r.raised
  /\ pc' = "done"
  /\ UNCHANGED <<op, text, lang_symbols, imported, failAt, failKind, sylMode>>

NextImproved ==
  Call_indic_syllable_text_processing_improved

SpecImproved ==
  InitImproved /\ [][NextImproved]_vars

(* ----------------------------- word tokenizers ------------------------- *)

ascii_uppercase ==
  <<"A", "B", "C", "D", "E", "F", "G", "H", "I", "J", "K", "L", "M",
    "N", "O", "P", "Q", "R", "S", "T", "U", "V", "W", "X", "Y", "Z">>

ascii_lowercase ==
  <<"a", "b", "c", "d", "e", "f", "g", "h", "i", "j", "k", "l", "m",
    "n", "o", "p", "q", "r", "s", "t", "u", "v", "w", "x", "y", "z">>

\* the character class [A-Za-z]
LATIN_ALPHABET_BASIC ==
  {ascii_uppercase[k] : k \in 1..26} \cup {ascii_lowercase[k] : k \in 1..26}

\* the character class [À-ÖØ-öø-ÿ], by two of its members
ACCENTED_CHARS ==
  {"Eacute", "eacute"}

LATIN_CHARS_ALL ==
  LATIN_ALPHABET_BASIC \cup ACCENTED_CHARS

\* str.lower()
lower(t) ==
  [k \in 1..Len(t) |->
     IF \E n \in 1..26 : ascii_uppercase[n] = t[k]
     THEN ascii_lowercase[CHOOSE n \in 1..26 : ascii_uppercase[n] = t[k]]
     ELSE IF t[k] = "Eacute" THEN "eacute" ELSE t[k]]

\* group 1 at p, where t[p] is a letter: [L]+(?:[L\-']*[L]+)* is greedy and ends on
\* the last letter of the run of letters, hyphens and apostrophes that begins at p
WordEnd(t, p, chars) ==
  LET ends == {q \in p..Len(t) : /\ t[q] \in chars
                                 /\ \A k \in p..q : t[k] \in chars \cup {"-", "'"}}
  IN  CHOOSE q \in ends : \A m \in ends : m <= q

\* group 2 at p, where t[p] is a pipe: \|[^|]*\| ends on the next pipe; 0 when
\* there is none and the group does not match
UnchangedEnd(t, p) ==
  LET pipes == {q \in (p + 1)..Len(t) : t[q] = "|"}
  IN  IF pipes = {} THEN 0 ELSE CHOOSE q \in pipes : \A m \in pipes : q <= m

\* PunctEnd for the class [^L|] without its `+`
PunctEnd_OneChar(t, p, chars) ==
  p

\* group 3 at p, where t[p] is neither a letter nor a pipe: [^L|]+ is greedy and
\* takes the whole run of such characters
PunctEnd(t, p, chars) ==
  LET ends == {q \in p..Len(t) : \A k \in p..q : t[k] \notin chars \cup {"|"}}
  IN  CHOOSE q \in ends : \A m \in ends : m <= q

RECURSIVE findall(_, _, _)
\* pattern.findall(text) from position p (1-based) on, for the pattern whose
\* letter class is chars: one (word, unchanged, punct) tuple per match, the
\* scan resuming after each match; where no group matches it moves on by one
findall(t, p, chars) ==
  IF p > Len(t) THEN <<>>
  ELSE IF t[p] \in chars
       THEN LET q == WordEnd(t, p, chars)
            IN  <<<<SubSeq(t, p, q), <<>>, <<>>>>>> \o findall(t, q + 1, chars)
  ELSE IF t[p] = "|"
       THEN LET q == UnchangedEnd(t, p)
            IN  IF q = 0 THEN findall(t, p + 1, chars)
                ELSE <<<<<<>>, SubSeq(t, p, q), <<>>>>>> \o findall(t, q + 1, chars)
  ELSE LET q == PunctEnd(t, p, chars)
       IN  <<<<<<>>, <<>>, SubSeq(t, p, q)>>>> \o findall(t, q + 1, chars)

RECURSIVE split_sep_NoEmpty(_, _)
\* split_sep that leaves the empty pieces out, as str.split() does
split_sep_NoEmpty(t, sep) ==
  LET at == {k \in 1..Len(t) : t[k] = sep}
      n == IF at = {} THEN Len(t) + 1 ELSE CHOOSE k \in at : \A m \in at : k <= m
      piece == IF n = 1 THEN <<>> ELSE <<SubSeq(t, 1, n - 1)>>
  IN  IF at = {} THEN piece
      ELSE piece \o split_sep_NoEmpty(SubSeq(t, n + 1, Len(t)), sep)

RECURSIVE split_sep(_, _)
\* str.split(sep): the pieces between the separators, the empty ones included
split_sep(t, sep) ==
  LET at == {k \in 1..Len(t) : t[k] = sep}
  IN  IF at = {} THEN <<t>>
      ELSE LET n == CHOOSE k \in at : \A m \in at : k <= m
           IN  <<SubSeq(t, 1, n - 1)>> \o split_sep(SubSeq(t, n + 1, Len(t)), sep)

RECURSIVE word_tokenize(_, _)
\* _word_tokenize(words, is_lower): [result, raised]
word_tokenize(ws, is_lower) ==
  IF ws = <<>> THEN [result |-> <<>>, raised |-> "none"]
  ELSE LET maybe_word == ws[1][1]
           maybe_without_changes == ws[1][2]
           maybe_punct == ws[1][3]
           rest == word_tokenize(Tail(ws), is_lower)
       IN  IF maybe_word = <<>> /\ maybe_punct = <<>> /\ maybe_without_changes = <<>>
           THEN [result |-> <<>>, raised |-> "ValueError"]
           ELSE LET entry ==
                      IF maybe_word # <<>>
                      THEN <<(IF is_lower THEN <<lower(maybe_word)>> ELSE <<maybe_word>>), FALSE>>
                      ELSE IF maybe_punct # <<>>
                      THEN <<(<<maybe_punct>>), FALSE>>
                      ELSE <<split_sep(SubSeq(maybe_without_changes, 2,
                                              Len(maybe_without_changes) - 1), " "), TRUE>>
                IN  IF rest.raised # "none" THEN rest
                    ELSE [result |-> <<entry>> \o rest.result, raised |-> "none"]

\* "Hello, |NVIDIA unchanged|!"
ScenarioA ==
  <<"H", "e", "l", "l", "o", ",", " ", "|", "N", "V", "I", "D", "I", "A", " ",
    "u", "n", "c", "h", "a", "n", "g", "e", "d", "|", "!">>

\* the input code points of the tokenizers' calls
TokChars ==
  {"A", "a", "eacute", "-", "|", " ", ","}

InitTok ==
  /\ op \in {"english_word_tokenize", "any_locale_word_tokenize"}
  /\ pc = "call"
  /\ text \in SeqsUpTo(TokChars, MaxLenTok) \cup {ScenarioA}
  /\ lang_symbols = {}
  /\ imported = FALSE
  /\ failAt = 0
  /\ failKind = "none"
  /\ sylMode = "none"
  /\ words = <<>>
  /\ result = <<>>
  /\ raised = "none"

Call_english_word_tokenize ==
  /\ pc = "call"
  /\ op = "english_word_tokenize"
  /\ words' = findall(text, 1, LATIN_ALPHABET_BASIC)
  /\ LET r == word_tokenize(words', TRUE)
     IN  result' = r.result /\ raised' = r.raised
  /\ pc' = "done"
  /\ UNCHANGED <<op, text, lang_symbols, imported, failAt, failKind, sylMode>>

Call_any_locale_word_tokenize ==
  /\ pc = "call"
  /\ op = "any_locale_word_tokenize"
  /\ words' = findall(text, 1, LATIN_CHARS_ALL)
  /\ LET r == word_tokenize(words', FALSE)
     IN  result' = r.result /\ raised' = r.raised
  /\ pc' = "done"
  /\ UNCHANGED <<op, text, lang_symbols, imported, failAt, failKind, sylMode>>

NextTok ==
  \/ Call_english_word_tokenize
  \/ Call_any_locale_word_tokenize

SpecTok ==
  InitTok /\ [][NextTok]_vars

(* ---------------------------- the whole module ------------------------- *)

Init ==
  InitCluster \/ InitImproved \/ InitTok

Next ==
  \/ Call_indic_syllable_text_processing
  \/ Call_generate_grapheme_clusters
  \/ Call_indic_syllable_text_processing_improved
  \/ Call_english_word_tokenize
  \/ Call_any_locale_word_tokenize

Spec ==
  Init /\ [][Next]_vars

(* ------------------- properties of the heuristic clusterer ------------- *)

ClusterDone ==
  pc = "done" /\ op \in {"indic_syllable_text_processing", "generate_grapheme_clusters"}

\* the text the loop runs over
LoopText ==
  IF op = "indic_syllable_text_processing" THEN any_locale_text_preprocessing(text) ELSE text

\* Unicode punctuation: the ASCII punctuation and the punctuation outside ASCII
IsUnicodePunctuation(char) ==
  char \in string_punctuation \cup {"danda", "rsquo"}

\* C1: no cluster the heuristic clusterer returns is the empty string.
C1_NoEmptyCluster ==
  ClusterDone => \A k \in 1..Len(result) : result[k] # <<>>

\* C4: no digit, no punctuation character (ASCII or not) and no whitespace
\* character (ASCII or not) occurs in a returned cluster.
C4_SkipsEveryDigitPunctuationWhitespace ==
  ClusterDone =>
    \A k \in 1..Len(result) : \A j \in 1..Len(result[k]) :
      /\ ~IsDigit(result[k][j])
      /\ ~IsUnicodePunctuation(result[k][j])
      /\ ~IsSpace(result[k][j])

C10_Boundaries ==
  ClusterDone =>
    /\ \A k \in 1..Len(result) : \A j \in 2..Len(result[k]) : result[k][j] \in lang_symbols
    /\ \A k \in 2..Len(result) : result[k] # <<>> /\ result[k][1] \notin lang_symbols
    /\ Len(result) = 1 + Cardinality({i \in 2..Len(LoopText) :
                                       ~IsSkipped(LoopText[i]) /\ LoopText[i] \notin lang_symbols})

\* a call that returns several clusters, one of them of several characters, on a
\* text whose first character is retained and is no combining symbol
C10_Witness ==
  /\ ClusterDone
  /\ Len(result) >= 2
  /\ \E k \in 1..Len(result) : Len(result[k]) >= 2
  /\ ~IsSkipped(LoopText[1]) /\ LoopText[1] \notin lang_symbols

(* ------------------ properties of the linguistic clusterer ------------- *)

ImprovedDone ==
  pc = "done" /\ op = "indic_syllable_text_processing_improved"

\* the library raises on one of the words of the call
LibraryRaises ==
  imported /\ failAt \in 1..Len(words)

\* C5: without the library the call raises ImportError, whatever the text.
C5_UnavailableAlwaysRaises ==
  (ImprovedDone /\ ~imported) => raised = "ImportError"

\* C6: when the processing of a word fails the call raises; it returns nothing.
C6_AllOrNothing ==
  (ImprovedDone /\ (LibraryRaises \/ (~imported /\ words # <<>>))) => raised # "none"

RECURSIVE Joined(_, _)
\* the library's answers for the words, a single-space cluster between neighbours
Joined(ws, mode) ==
  IF ws = <<>> THEN <<>>
  ELSE IF Len(ws) = 1 THEN orthographic_syllabify_improved(ws[1], mode)
  ELSE orthographic_syllabify_improved(ws[1], mode) \o <<<<" ">>>> \o Joined(Tail(ws), mode)

TokDone ==
  pc = "done" /\ op \in {"english_word_tokenize", "any_locale_word_tokenize"}

\* the matched text of every match, in order
MatchedText ==
  Flatten([k \in 1..Len(words) |-> words[k][1] \o words[k][2] \o words[k][3]])

\* C2: the matches are exhaustive: every character of the text is in a match.
C2_MatchesExhaustive ==
  TokDone => MatchedText = text

\* "hello", ",", " ", "NVIDIA", "unchanged", "!", ", "
ScenarioA_Tokens ==
  [hello |-> <<"h", "e", "l", "l", "o">>,
   comma |-> <<",">>,
   space |-> <<" ">>,
   commaspace |-> <<",", " ">>,
   NVIDIA |-> <<"N", "V", "I", "D", "I", "A">>,
   unchanged |-> <<"u", "n", "c", "h", "a", "n", "g", "e", "d">>,
   bang |-> <<"!">>]

\* C3 as stated: Scenario A gives five tokens, the comma and the space apart.
C3_ScenarioA_FiveTokens ==
  (TokDone /\ op = "english_word_tokenize" /\ text = ScenarioA) =>
    result = << <<(<<ScenarioA_Tokens.hello>>), FALSE>>,
                <<(<<ScenarioA_Tokens.comma>>), FALSE>>,
                <<(<<ScenarioA_Tokens.space>>), FALSE>>,
                <<(<<ScenarioA_Tokens.NVIDIA, ScenarioA_Tokens.unchanged>>), TRUE>>,
                <<(<<ScenarioA_Tokens.bang>>), FALSE>> >>

\* C3 amended: Scenario A gives four tokens, the comma and the space that
\* follows it being one separator token ", ".
C3_ScenarioA_FourTokens ==
  (TokDone /\ op = "english_word_tokenize" /\ text = ScenarioA) =>
    /\ raised = "none"
    /\ result = << <<(<<ScenarioA_Tokens.hello>>), FALSE>>,
                   <<(<<ScenarioA_Tokens.commaspace>>), FALSE>>,
                   <<(<<ScenarioA_Tokens.NVIDIA, ScenarioA_Tokens.unchanged>>), TRUE>>,
                   <<(<<ScenarioA_Tokens.bang>>), FALSE>> >>

\* english_word_tokenize has returned on Scenario A's text
C3_Witness ==
  TokDone /\ op = "english_word_tokenize" /\ text = ScenarioA /\ Len(result) > 0

\* the pipes of the text pair up
Balanced(t) ==
  Cardinality({k \in 1..Len(t) : t[k] = "|"}) % 2 = 0

RECURSIVE join(_, _)
\* sep.join(pieces)
join(pieces, sep) ==
  IF pieces = <<>> THEN <<>>
  ELSE IF Len(pieces) = 1 THEN pieces[1]
  ELSE pieces[1] \o <<sep>> \o join(Tail(pieces), sep)

\* every piece emitted, in order, the pieces of a token rejoined by one space
Rejoined ==
  Flatten([k \in 1..Len(result) |-> join(result[k][1], " ")])

\* C7 as stated: for balanced pipes the pieces rebuild the text, up to case.
C7_RebuildsText ==
  (TokDone /\ Balanced(text)) => lower(Rejoined) = lower(text)

\* C7 amended: for balanced pipes the pieces rebuild the text without its pipe
\* characters, up to the lowercasing of the word tokens (exactly when no
\* lowercasing is asked for).
C7_RebuildsTextWithoutPipes ==
  (TokDone /\ Balanced(text)) =>
    LET stripped == SelectSeq(text, LAMBDA char : char # "|")
    IN  /\ raised = "none"
        /\ lower(Rejoined) = lower(stripped)
        /\ op = "any_locale_word_tokenize" => Rejoined = stripped

\* a call on a text of balanced pipes with a protected token of several pieces,
\* one of them empty, beside another token
C7_Witness ==
  /\ TokDone /\ Balanced(text)
  /\ Len(result) >= 2
  /\ \E k \in 1..Len(result) :
       /\ result[k][2] = TRUE
       /\ Len(result[k][1]) >= 2
       /\ \E j \in 1..Len(result[k][1]) : result[k][1][j] = <<>>

====
